---- MODULE Spec2Model ----
(***************************************************************************)
(* Box generation of WeasyPrint (weasy/boxes.py): a styled element tree is *)
(* turned into a box tree by dom_to_box, its text is normalised by         *)
(* process_whitespace, and the tree is restructured in place by            *)
(* inline_in_block and block_in_inline.                                    *)
(*                                                                         *)
(* Boxes live in a heap (objects with identity, a parent reference and a   *)
(* reference to a children list).  Python lists are objects of their own:  *)
(* a `for` loop walks one list object by position while the loop body may  *)
(* change that very list or re-bind box.children to a fresh list, so the   *)
(* heap keeps the list objects apart from the boxes that refer to them.    *)
(***************************************************************************)
EXTENDS Integers, Sequences, FiniteSets, TLC

VARIABLES dom, heap, root, stage, passes, prev

vars == <<dom, heap, root, stage, passes, prev>>

(***************************************************************************)
(* Bounds of the model.                                                    *)
(***************************************************************************)
\* elements of a styled tree of the general specification
MaxElems == 3
\* non-empty text runs (element.text / element.tail) in such a tree
MaxTexts == 3
\* elements of a styled tree of the block-in-inline specification
MaxNestElems == 5
\* non-empty text runs in such a tree
MaxNestTexts == 1
\* text boxes of a tree of the white-space specification
MaxWsBoxes == 3
\* characters, all text boxes together, in such a tree
MaxWsChars == 3
\* calls of process_whitespace on one tree in the white-space specification
MaxPasses == 2

(***************************************************************************)
(* Characters.  U+00A0 and U+200B are written as tokens.                   *)
(***************************************************************************)
SP == " "
NL == "\n"
TAB == "\t"
CR == "\r"
NBSP == "nbsp"
ZWSP == "zwsp"

Modes == {"normal", "nowrap", "pre", "pre-wrap", "pre-line"}

(***************************************************************************)
(* Sequence helpers.                                                       *)
(***************************************************************************)
Range(s) == {s[i] : i \in 1..Len(s)}

Min(S) == CHOOSE x \in S : \A y \in S : x <= y

\* s[:k] and s[k:] of Python, k counted from 0
Take(s, k) == SubSeq(s, 1, IF k > Len(s) THEN Len(s) ELSE k)
Drop(s, k) == SubSeq(s, k + 1, Len(s))

\* list.insert(index, x): an index past the end appends
InsertAt(s, index, x) == Take(s, index) \o <<x>> \o Drop(s, index)

\* list.index(x), counted from 0; -1 stands for the ValueError of an absent x
ListIndex(s, x) ==
    IF x \in Range(s) THEN Min({i \in 1..Len(s) : s[i] = x}) - 1 ELSE -1

\* list.remove(x): the first occurrence goes
ListRemove(s, x) ==
    LET i == ListIndex(s, x)
    IN IF i < 0 THEN s ELSE Take(s, i) \o Drop(s, i + 1)

RECURSIVE Flatten(_)
Flatten(ss) == IF ss = <<>> THEN <<>> ELSE Head(ss) \o Flatten(Tail(ss))

(***************************************************************************)
(* The class hierarchy (isinstance tests).                                 *)
(***************************************************************************)
\* BlockBox and AnonymousBlockBox inherit from BlockLevelBox
IsBlockLevelBox(cls) == cls \in {"BlockBox", "AnonymousBlockBox"}

\* BlockBox, AnonymousBlockBox and InlineBlockBox inherit from BlockContainerBox
IsBlockContainerBox(cls) == cls \in {"BlockBox", "AnonymousBlockBox", "InlineBlockBox"}
\* TextBox inherits from InlineBox
IsInlineBox(cls) == cls \in {"InlineBox", "TextBox"}
IsLineBox(cls) == cls = "LineBox"

(***************************************************************************)
(* The heap.  Box 0 is None and list 0 is None (TextBox.children).         *)
(***************************************************************************)
EmptyHeap == [boxes |-> <<>>, lists |-> <<>>, err |-> "none", nsplit |-> 0]

Failed(h) == h.err # "none"
Raise(h, e) == IF Failed(h) THEN h ELSE [h EXCEPT !.err = e]

\* box.children or []
ChildrenOf(h, b) ==
    IF h.boxes[b].children = 0 THEN <<>> ELSE h.lists[h.boxes[b].children]

\* Box.__init__: no parent, an empty children list of its own
NewBox(h, cls, element) ==
    [h EXCEPT !.lists = Append(@, <<>>),
              !.boxes = Append(@, [cls |-> cls, element |-> element, parent |-> 0,
                                   children |-> Len(h.lists) + 1, text |-> <<>>])]

\* TextBox.__init__: children is None
NewTextBox(h, element, text) ==
    [h EXCEPT !.boxes = Append(@, [cls |-> "TextBox", element |-> element, parent |-> 0,
                                   children |-> 0, text |-> text])]

\* the box the last NewBox / NewTextBox made
Last(h) == Len(h.boxes)

\* faulty variant: the child's parent is not set
AddChild_KeepParent(h, b, child) ==
    [h EXCEPT !.lists[h.boxes[b].children] = Append(@, child)]

\* Box.add_child(child): append
AddChild(h, b, child) ==
    [h EXCEPT !.boxes[child].parent = b,
              !.lists[h.boxes[b].children] = Append(@, child)]

\* Box.add_child(child, index)
AddChildAt(h, b, child, index) ==
    [h EXCEPT !.boxes[child].parent = b,
              !.lists[h.boxes[b].children] = InsertAt(@, index, child)]

\* box.children = <a new list>
SetChildren(h, b, s) ==
    [h EXCEPT !.lists = Append(@, s), !.boxes[b].children = Len(h.lists) + 1]

\* Box.index: the place of the box in its parent's children
Index(h, b) == ListIndex(ChildrenOf(h, h.boxes[b].parent), b)

\* Box.descendants(): the box, then its children's descendants, in order
RECURSIVE Descendants(_, _)
Descendants(h, b) ==
    LET kids == ChildrenOf(h, b)
    IN <<b>> \o Flatten([i \in 1..Len(kids) |-> Descendants(h, kids[i])])

\* Box.ancestors(): the parent, the parent's parent, ... nearest first
RECURSIVE Ancestors(_, _)
Ancestors(h, b) ==
    IF h.boxes[b].parent = 0 THEN <<>>
    ELSE <<h.boxes[b].parent>> \o Ancestors(h, h.boxes[b].parent)

(***************************************************************************)
(* The styled tree: elements 1..n in document order, element 1 the root.   *)
(***************************************************************************)
\* iterating an element: its child elements in document order
ElementChildren(d, e) == SelectSeq([i \in 1..Len(d) |-> i], LAMBDA c : d[c].parent = e)

(***************************************************************************)
(* dom_to_box                                                              *)
(***************************************************************************)
RECURSIVE DomToBoxRec(_, _, _)
RECURSIVE DomToBoxChildren(_, _, _, _)

\* faulty variant: the tail of a child with display 'none' is dropped
TailText_ShownOnly(d, h, box, c) ==
    IF d[c].tail = <<>> \/ d[c].display = "none" THEN h
    ELSE AddChild(NewTextBox(h, h.boxes[box].element, d[c].tail), box, Len(h.boxes) + 1)

\* if child_element.tail: box.add_child(TextBox(element, child_element.tail))
TailText(d, h, box, c) ==
    IF d[c].tail = <<>> THEN h
    ELSE AddChild(NewTextBox(h, h.boxes[box].element, d[c].tail), box, Len(h.boxes) + 1)

\* the loop over the child elements; box is the box being filled
DomToBoxChildren(d, h, box, kids) ==
    IF kids = <<>> \/ Failed(h) THEN h
    ELSE LET c == Head(kids)
             h1 == IF d[c].display # "none"
                   THEN LET r == DomToBoxRec(d, h, c)
                        IN IF Failed(r.h) THEN r.h ELSE AddChild(r.h, box, r.box)
                   ELSE h
             h2 == IF Failed(h1) THEN h1 ELSE TailText(d, h1, box, c)
         IN DomToBoxChildren(d, h2, box, Tail(kids))

\* dom_to_box(element): the heap after the call and the box it returns
DomToBoxRec(d, h, e) ==
    LET display == d[e].display
    IN IF display = "none" THEN [h |-> Raise(h, "AssertionError"), box |-> 0]
       ELSE IF display \notin {"block", "list-item", "inline", "inline-block"}
       THEN [h |-> Raise(h, "NotImplementedError"), box |-> 0]
       ELSE LET cls == IF display \in {"block", "list-item"} THEN "BlockBox"
                       ELSE IF display = "inline" THEN "InlineBox"
                       ELSE "InlineBlockBox"
                h0 == NewBox(h, cls, e)
                box == Last(h0)
                h1 == IF d[e].text # <<>>
                      THEN AddChild(NewTextBox(h0, e, d[e].text), box, box + 1)
                      ELSE h0
            IN [h |-> DomToBoxChildren(d, h1, box, ElementChildren(d, e)), box |-> box]

(***************************************************************************)
(* process_whitespace                                                      *)
(***************************************************************************)
\* the length of the longest prefix of t matched by [\t\r ]*
RECURSIVE BlankPrefix(_)
BlankPrefix(t) ==
    IF t # <<>> /\ Head(t) \in {TAB, CR, SP} THEN 1 + BlankPrefix(Tail(t)) ELSE 0

\* re.sub('[\t\r ]*\n[\t\r ]*', '\n', text): leftmost matches, greedy, left to right
RECURSIVE SubNewlines(_)
SubNewlines(t) ==
    IF t = <<>> THEN <<>>
    ELSE LET lead == BlankPrefix(t)
         IN IF lead < Len(t) /\ t[lead + 1] = NL
            THEN LET rest == Drop(t, lead + 1)
                 IN <<NL>> \o SubNewlines(Drop(rest, BlankPrefix(rest)))
            ELSE <<Head(t)>> \o SubNewlines(Tail(t))

\* text.replace(old, new) for one-character strings
Replace(t, old, new) == [i \in 1..Len(t) |-> IF t[i] = old THEN new ELSE t[i]]

\* faulty variant: the pattern without its |$ alternative
RECURSIVE SubBreaks_NotAtEnd(_)
SubBreaks_NotAtEnd(t) ==
    IF t = <<>> THEN <<>>
    ELSE IF Head(t) = NBSP /\ Len(t) > 1 /\ t[2] # NBSP
         THEN <<NBSP, ZWSP, t[2]>> \o SubBreaks_NotAtEnd(Drop(t, 2))
    ELSE <<Head(t)>> \o SubBreaks_NotAtEnd(Tail(t))

\* re.sub(u'\xA0([^\xA0]|$)', u'\xA0\u200B\\1', text)
RECURSIVE SubBreaks(_)
SubBreaks(t) ==
    IF t = <<>> THEN <<>>
    ELSE IF Head(t) = NBSP /\ Len(t) = 1 THEN <<NBSP, ZWSP>>
    ELSE IF Head(t) = NBSP /\ t[2] # NBSP
         THEN <<NBSP, ZWSP, t[2]>> \o SubBreaks(Drop(t, 2))
    ELSE <<Head(t)>> \o SubBreaks(Tail(t))

\* the length of the longest prefix of t matched by ' *'
RECURSIVE SpacePrefix(_)
SpacePrefix(t) == IF t # <<>> /\ Head(t) = SP THEN 1 + SpacePrefix(Tail(t)) ELSE 0

\* re.sub(' +', ' ', text)
RECURSIVE SubSpaces(_)
SubSpaces(t) ==
    IF t = <<>> THEN <<>>
    ELSE IF Head(t) = SP THEN <<SP>> \o SubSpaces(Drop(t, SpacePrefix(t)))
    ELSE <<Head(t)>> \o SubSpaces(Tail(t))

StartsWithSpace(t) == t # <<>> /\ Head(t) = SP
EndsWithSpace(t) == t # <<>> /\ t[Len(t)] = SP

\* the new-line and pre / pre-wrap part of the loop body
Transform(text, handling) ==
    LET t1 == SubNewlines(text)
    IN IF handling \in {"pre", "pre-wrap"}
       THEN LET t2 == Replace(t1, SP, NBSP)
            IN IF handling = "pre-wrap" THEN SubBreaks(t2) ELSE t2
       ELSE IF handling \in {"normal", "nowrap"} THEN Replace(t1, NL, SP)
       ELSE t1

\* the collapsing part: tabs to spaces, runs of spaces to one space
Collapse(text) == SubSpaces(Replace(text, TAB, SP))

\* a collapsed text after the space carried from the text box before
StripCarried(text, following) ==
    IF following /\ StartsWithSpace(text) THEN Tail(text) ELSE text

\* following_collapsible_space after a collapsing text box
CarriesSpace(text) == EndsWithSpace(text)

\* one turn of the loop on a box with text: the new text and the new
\* following_collapsible_space
ProcessText(text, handling, following) ==
    LET t == Transform(text, handling)
    IN IF handling \in {"normal", "nowrap", "pre-line"}
       THEN LET c == StripCarried(Collapse(t), following)
            IN [text |-> c, following |-> CarriesSpace(c)]
       ELSE [text |-> t, following |-> FALSE]

\* box.style.white_space: an anonymous box (a TextBox) inherits the property
\* from the element it was made for
WhiteSpaceOf(d, h, b) == d[h.boxes[b].element].white_space

\* hasattr(box, 'text') and box.text
HasText(h, b) == h.boxes[b].cls = "TextBox" /\ h.boxes[b].text # <<>>

\* the loop over box.descendants()
RECURSIVE ProcessWhitespaceLoop(_, _, _, _)
ProcessWhitespaceLoop(d, h, todo, following) ==
    IF todo = <<>> THEN h
    ELSE LET b == Head(todo)
         IN IF ~HasText(h, b) THEN ProcessWhitespaceLoop(d, h, Tail(todo), following)
            ELSE LET r == ProcessText(h.boxes[b].text, WhiteSpaceOf(d, h, b), following)
                 IN ProcessWhitespaceLoop(d, [h EXCEPT !.boxes[b].text = r.text],
                                          Tail(todo), r.following)

\* process_whitespace(box)
ProcessWhitespaceOf(d, h, box) ==
    IF Failed(h) THEN h ELSE ProcessWhitespaceLoop(d, h, Descendants(h, box), FALSE)

(***************************************************************************)
(* Loops over a children list.  `for child_box in box.children or []`      *)
(* takes the list object once (a fresh empty list when box.children is     *)
(* None or empty) and then reads it by position, whatever the body does to *)
(* it meanwhile.                                                           *)
(***************************************************************************)
\* the list object the loop walks; 0 for the fresh empty list
LoopList(h, b) == IF ChildrenOf(h, b) = <<>> THEN 0 ELSE h.boxes[b].children

\* whether the loop over list object l has an item at position i (from 1)
LoopHas(h, l, i) == l # 0 /\ i <= Len(h.lists[l])

(***************************************************************************)
(* inline_in_block                                                         *)
(***************************************************************************)
RECURSIVE InlineInBlockRec(_, _)
RECURSIVE InlineInBlockChildren(_, _, _)

\* for child_box in box.children or []: inline_in_block(child_box)
InlineInBlockChildren(h, l, i) ==
    IF Failed(h) \/ ~LoopHas(h, l, i) THEN h
    ELSE InlineInBlockChildren(InlineInBlockRec(h, h.lists[l][i]), l, i + 1)

\* anonymous = AnonymousBlockBox(box.element); anonymous.add_child(line_box);
\* box.add_child(anonymous)
WrapLine(h, box, line) ==
    LET h1 == NewBox(h, "AnonymousBlockBox", h.boxes[box].element)
        anonymous == Last(h1)
    IN AddChild(AddChild(h1, anonymous, line), box, anonymous)

\* for child in child_box.children: line_box.add_child(child)
RECURSIVE MergeLine(_, _, _)
MergeLine(h, line, kids) ==
    IF kids = <<>> THEN h ELSE MergeLine(AddChild(h, line, Head(kids)), line, Tail(kids))

\* the loop over the former children; line is the line box being filled
RECURSIVE InlineInBlockWrap(_, _, _, _)
InlineInBlockWrap(h, box, kids, line) ==
    IF kids = <<>> THEN [h |-> h, line |-> line]
    ELSE LET child == Head(kids)
         IN IF IsBlockLevelBox(h.boxes[child].cls)
            THEN IF ChildrenOf(h, line) # <<>>
                 THEN LET h1 == WrapLine(h, box, line)
                          h2 == NewBox(h1, "LineBox", h1.boxes[box].element)
                      IN InlineInBlockWrap(AddChild(h2, box, child), box, Tail(kids), Last(h2))
                 ELSE InlineInBlockWrap(AddChild(h, box, child), box, Tail(kids), line)
            ELSE IF IsLineBox(h.boxes[child].cls)
            THEN InlineInBlockWrap(MergeLine(h, line, ChildrenOf(h, child)),
                                   box, Tail(kids), line)
            ELSE InlineInBlockWrap(AddChild(h, line, child), box, Tail(kids), line)

\* faulty variant: the last line box is wrapped in an anonymous block even
\* when the container has no block-level child
WrapInlines_AlwaysAnonymous(h, box) ==
    LET h1 == NewBox(h, "LineBox", h.boxes[box].element)
        children == ChildrenOf(h1, box)
        r == InlineInBlockWrap(SetChildren(h1, box, <<>>), box, children, Last(h1))
    IN IF ChildrenOf(r.h, r.line) # <<>> THEN WrapLine(r.h, box, r.line) ELSE r.h

\* what inline_in_block does to a block container after its children
WrapInlines(h, box) ==
    LET h1 == NewBox(h, "LineBox", h.boxes[box].element)
        children == ChildrenOf(h1, box)
        r == InlineInBlockWrap(SetChildren(h1, box, <<>>), box, children, Last(h1))
    IN IF ChildrenOf(r.h, r.line) # <<>>
       THEN IF ChildrenOf(r.h, box) # <<>>
            THEN WrapLine(r.h, box, r.line)
            ELSE AddChild(r.h, box, r.line)
       ELSE r.h

\* inline_in_block(box)
InlineInBlockRec(h, box) ==
    LET h1 == InlineInBlockChildren(h, LoopList(h, box), 1)
    IN IF Failed(h1) \/ ~IsBlockContainerBox(h1.boxes[box].cls) THEN h1
       ELSE WrapInlines(h1, box)

(***************************************************************************)
(* block_in_inline                                                         *)
(***************************************************************************)
\* the number of ancestors, nearest first, up to and including the first one
\* that is not an InlineBox; 0 when every ancestor is an InlineBox
RECURSIVE InlineChain(_, _)
InlineChain(h, anc) ==
    IF anc = <<>> THEN 0
    ELSE IF ~IsInlineBox(h.boxes[Head(anc)].cls) THEN 1
    ELSE LET n == InlineChain(h, Tail(anc)) IN IF n = 0 THEN 0 ELSE n + 1

\* "Add an anonymous block level box before the block box": the heap and
\* previous_anonymous_box
PreviousAnonymousBox(h, line) ==
    LET parent == h.boxes[line].parent
    IN IF parent = 0 THEN [h |-> Raise(h, "AttributeError"), box |-> 0]
       ELSE IF h.boxes[parent].cls = "AnonymousBlockBox" THEN [h |-> h, box |-> parent]
       ELSE LET h1 == NewBox(h, "AnonymousBlockBox", h.boxes[line].element)
                anonymous == Last(h1)
                h2 == AddChildAt(h1, parent, anonymous, Index(h1, line))
                h3 == [h2 EXCEPT !.lists[h2.boxes[parent].children] = ListRemove(@, line)]
            IN IF Index(h1, line) < 0 THEN [h |-> Raise(h1, "ValueError"), box |-> 0]
               ELSE [h |-> AddChild(h3, anonymous, line), box |-> anonymous]

\* "Add an anonymous block level box after the block box": the heap and
\* next_anonymous_box
NextAnonymousBox(h, line, previous) ==
    LET h1 == NewBox(h, "AnonymousBlockBox", h.boxes[line].element)
        parent == h.boxes[previous].parent
    IN IF parent = 0 THEN [h |-> Raise(h1, "AttributeError"), box |-> 0]
       ELSE IF Index(h1, previous) < 0 THEN [h |-> Raise(h1, "ValueError"), box |-> 0]
       ELSE [h |-> AddChildAt(h1, parent, Last(h1), Index(h1, previous) + 1),
             box |-> Last(h1)]

\* while inline_parents: parent = inline_parents.pop(); clone it into clone_box.
\* The heap and the innermost clone
RECURSIVE CloneParents(_, _, _)
CloneParents(h, inline_parents, clone_box) ==
    IF inline_parents = <<>> THEN [h |-> h, box |-> clone_box]
    ELSE LET parent == inline_parents[Len(inline_parents)]
             h1 == NewBox(h, h.boxes[parent].cls, h.boxes[parent].element)
         IN CloneParents(AddChild(h1, clone_box, Last(h1)),
                         Take(inline_parents, Len(inline_parents) - 1), Last(h1))

\* for child in next_children: clone_box.add_child(child)
RECURSIVE MoveChildren(_, _, _)
MoveChildren(h, clone_box, kids) ==
    IF kids = <<>> THEN h
    ELSE MoveChildren(AddChild(h, clone_box, Head(kids)), clone_box, Tail(kids))

\* the loop `for parent in box.ancestors()` that moves what follows the
\* split point into the clones; parents are the ancestors still to visit
RECURSIVE SplitParents(_, _, _, _, _)
SplitParents(h, parents, line, splitter_box, clone_box) ==
    IF parents = <<>> \/ Failed(h) THEN h
    ELSE LET parent == Head(parents)
             index == Index(h, splitter_box)
             children == ChildrenOf(h, parent)
             h1 == SetChildren(h, parent, Take(children, index + 1))
         IN IF parent = line THEN h
            ELSE IF index < 0 THEN Raise(h, "ValueError")
            ELSE SplitParents(MoveChildren(h1, clone_box, Drop(children, index + 1)),
                              Tail(parents), line, parent, h1.boxes[clone_box].parent)

\* faulty variant: the block box stays in its inline parent
MoveBlock_Stay(h, box, previous) == h

\* "Put the block element before the next_anonymous_box"
MoveBlock(h, box, previous) ==
    LET parent == h.boxes[box].parent
        h1 == [h EXCEPT !.lists[h.boxes[parent].children] = ListRemove(@, box)]
    IN IF Index(h, box) < 0 \/ Index(h1, previous) < 0 THEN Raise(h, "ValueError")
       ELSE AddChildAt(h1, h1.boxes[previous].parent, box, Index(h1, previous) + 1)

\* what block_in_inline does to a block-level box whose parent is an InlineBox
SplitInlines(h, box) ==
    LET anc == Ancestors(h, box)
        n == InlineChain(h, anc)
        inline_parents == Take(anc, n)
        parent_line_box == anc[n]
        p == PreviousAnonymousBox(h, parent_line_box)
        q == NextAnonymousBox(p.h, parent_line_box, p.box)
        c == CloneParents(q.h, inline_parents, q.box)
        h1 == SplitParents(c.h, Ancestors(c.h, box), parent_line_box, box, c.box)
    IN IF n = 0 THEN Raise(h, "UnboundLocalError")
       ELSE IF ~IsLineBox(h.boxes[parent_line_box].cls) THEN Raise(h, "AssertionError")
       ELSE IF Failed(p.h) THEN p.h
       ELSE IF Failed(q.h) THEN q.h
       ELSE IF Failed(h1) THEN h1
       ELSE [MoveBlock(h1, box, p.box) EXCEPT !.nsplit = @ + 1]

\* the test that lets block_in_inline act on a box
MustSplit(h, box) ==
    /\ IsBlockLevelBox(h.boxes[box].cls)
    /\ h.boxes[box].parent # 0
    /\ IsInlineBox(h.boxes[h.boxes[box].parent].cls)

RECURSIVE BlockInInlineRec(_, _)
RECURSIVE BlockInInlineChildren(_, _, _)

\* for child_box in box.children or []: block_in_inline(child_box)
BlockInInlineChildren(h, l, i) ==
    IF Failed(h) \/ ~LoopHas(h, l, i) THEN h
    ELSE BlockInInlineChildren(BlockInInlineRec(h, h.lists[l][i]), l, i + 1)

\* block_in_inline(box)
BlockInInlineRec(h, box) ==
    LET h1 == BlockInInlineChildren(h, LoopList(h, box), 1)
    IN IF Failed(h1) \/ ~MustSplit(h1, box) THEN h1
       ELSE SplitInlines(h1, box)

(***************************************************************************)
(* The styled trees the model starts from.                                 *)
(***************************************************************************)
\* an element and its ancestors under the parent vector p
RECURSIVE ElementChain(_, _)
ElementChain(p, e) == IF e = 0 THEN {} ELSE {e} \cup ElementChain(p, p[e])

\* the trees of n elements numbered in document order: the parent of element
\* i is element i - 1 or one of its ancestors
ParentVectors(n) ==
    {p \in [1..n -> 0..(n - 1)] :
        /\ p[1] = 0
        /\ \A i \in 2..n : p[i] >= 1 /\ p[i] < i
        /\ \A i \in 3..n : p[i] \in ElementChain(p, i - 1)}

\* the places of a tree that can hold text; the root's tail is never read
TextSlots(n) == {<<e, "text">> : e \in 1..n} \cup {<<e, "tail">> : e \in 2..n}

\* the text of the styled trees of the structural specifications
SomeText == <<SP, "a", SP>>

\* the styled tree of n elements with parent vector p, the root's display
\* rd, the others' displays ds, and text in the slots S
StyledTree(n, p, rd, ds, S) ==
    [e \in 1..n |->
        [parent |-> p[e],
         display |-> IF e = 1 THEN rd ELSE ds[e],
         text |-> IF <<e, "text">> \in S THEN SomeText ELSE <<>>,
         tail |-> IF <<e, "tail">> \in S THEN SomeText ELSE <<>>,
         white_space |-> "normal"]]

(***************************************************************************)
(* The pipeline as a state machine: one action per function of boxes.py,   *)
(* called on the root in the order the layout uses them.                   *)
(***************************************************************************)
\* nothing is built yet
Unbuilt ==
    /\ heap = EmptyHeap
    /\ root = 0
    /\ stage = "styled"
    /\ passes = 0
    /\ prev = EmptyHeap

\* some styled tree within the bounds, nothing built yet
Start(maxElems, rootDisplays, displays, maxTexts) ==
    /\ \E n \in 1..maxElems : \E p \in ParentVectors(n) :
       \E rd \in rootDisplays : \E ds \in [2..n -> displays] :
       \E S \in {T \in SUBSET TextSlots(n) : Cardinality(T) <= maxTexts} :
            dom = StyledTree(n, p, rd, ds, S)
    /\ Unbuilt

Init ==
    Start(MaxElems, {"block", "list-item", "inline", "inline-block"},
          {"block", "inline", "inline-block", "none"}, MaxTexts)

\* root = dom_to_box(root element)
DomToBox ==
    /\ stage = "styled"
    /\ LET r == DomToBoxRec(dom, EmptyHeap, 1)
       IN heap' = r.h /\ root' = r.box
    /\ stage' = "built"
    /\ prev' = heap
    /\ UNCHANGED <<dom, passes>>

\* process_whitespace(root)
ProcessWhitespace ==
    /\ stage = "built"
    /\ ~Failed(heap)
    /\ heap' = ProcessWhitespaceOf(dom, heap, root)
    /\ stage' = "spaced"
    /\ passes' = passes + 1
    /\ prev' = heap
    /\ UNCHANGED <<dom, root>>

\* process_whitespace(root), once more
ProcessWhitespaceAgain ==
    /\ stage = "spaced"
    /\ passes < MaxPasses
    /\ heap' = ProcessWhitespaceOf(dom, heap, root)
    /\ passes' = passes + 1
    /\ prev' = heap
    /\ UNCHANGED <<dom, root, stage>>

\* inline_in_block(root)
InlineInBlock ==
    /\ stage = "spaced"
    /\ heap' = InlineInBlockRec(heap, root)
    /\ stage' = "wrapped"
    /\ prev' = heap
    /\ UNCHANGED <<dom, root, passes>>

\* block_in_inline(root)
BlockInInline ==
    /\ stage = "wrapped"
    /\ heap' = BlockInInlineRec(heap, root)
    /\ stage' = "split"
    /\ prev' = heap
    /\ UNCHANGED <<dom, root, passes>>

Next == DomToBox \/ ProcessWhitespace \/ InlineInBlock \/ BlockInInline

Spec == Init /\ [][Next]_vars

(***************************************************************************)
(* The block-in-inline specification: deeper trees under a block root, so  *)
(* that blocks nest in inlines that nest in blocks that nest in inlines.   *)
(***************************************************************************)
InitNested ==
    Start(MaxNestElems, {"block", "list-item"}, {"block", "inline", "inline-block"},
          MaxNestTexts)

SpecNested == InitNested /\ [][Next]_vars

(***************************************************************************)
(* The white-space specification: a block root whose inline children each  *)
(* hold one text, every text with a white-space mode of its own, and       *)
(* process_whitespace called up to MaxPasses times.                        *)
(***************************************************************************)
WsAlphabet == {"a", SP, NL, TAB}

RECURSIVE SumTo(_, _)
SumTo(f, k) == IF k = 0 THEN 0 ELSE f[k] + SumTo(f, k - 1)

\* the tree of a block root with k inline children: child i holds the next
\* lens[i] characters of w and has the white-space mode modes[i]
WsTree(k, lens, w, modes) ==
    [e \in 1..(k + 1) |->
        IF e = 1
        THEN [parent |-> 0, display |-> "block", text |-> <<>>, tail |-> <<>>,
              white_space |-> "normal"]
        ELSE [parent |-> 1, display |-> "inline",
              text |-> [i \in 1..lens[e - 1] |-> w[SumTo(lens, e - 2) + i]],
              tail |-> <<>>, white_space |-> modes[e - 1]]]

InitWS ==
    /\ \E k \in 1..MaxWsBoxes :
       \E lens \in {l \in [1..k -> 1..MaxWsChars] : SumTo(l, k) <= MaxWsChars} :
       \E w \in [1..SumTo(lens, k) -> WsAlphabet] : \E modes \in [1..k -> Modes] :
            dom = WsTree(k, lens, w, modes)
    /\ Unbuilt

NextWS == DomToBox \/ ProcessWhitespace \/ ProcessWhitespaceAgain

SpecWS == InitWS /\ [][NextWS]_vars

(***************************************************************************)
(* Vocabulary of the properties.                                           *)
(***************************************************************************)
\* the boxes of the tree under the root, in document order
Reachable(h) == Descendants(h, root)

TextBoxesOf(h) == SelectSeq(Reachable(h), LAMBDA b : h.boxes[b].cls = "TextBox")

\* the block boxes made for elements, in document order
BlockBoxesOf(h) == SelectSeq(Reachable(h), LAMBDA b : h.boxes[b].cls = "BlockBox")

ClassesOf(h, kids) == [i \in 1..Len(kids) |-> h.boxes[kids[i]].cls]

RootIsBlock == dom[1].display \in {"block", "list-item"}

\* no box is met twice, every child names the box that lists it as its
\* parent, and the root alone has no parent
ParentsAgree(h) ==
    LET seen == Reachable(h)
    IN /\ \A i, j \in 1..Len(seen) : seen[i] = seen[j] => i = j
       /\ h.boxes[root].parent = 0
       /\ \A i \in 1..Len(seen) :
            /\ \A c \in Range(ChildrenOf(h, seen[i])) : h.boxes[c].parent = seen[i]
            /\ seen[i] # root => h.boxes[seen[i]].parent # 0

\* a block container holds block-level boxes only or line boxes only
ContainerUnmixed(h, b) ==
    \/ \A c \in Range(ChildrenOf(h, b)) : IsBlockLevelBox(h.boxes[c].cls)
    \/ \A c \in Range(ChildrenOf(h, b)) : IsLineBox(h.boxes[c].cls)

\* an InlineBox holds no block-level box
InlineUnbroken(h, b) ==
    \A c \in Range(ChildrenOf(h, b)) : ~IsBlockLevelBox(h.boxes[c].cls)

(***************************************************************************)
(* C1: after dom_to_box, process_whitespace, inline_in_block and           *)
(* block_in_inline on a tree with a block or list-item root, every block   *)
(* container holds only block-level boxes or only line boxes, and no       *)
(* InlineBox holds a block-level box; also for blocks nested in inlines    *)
(* nested in blocks nested in inlines.                                     *)
(***************************************************************************)
C1_Normalized ==
    (stage = "split" /\ RootIsBlock) =>
        /\ ~Failed(heap)
        /\ \A b \in Range(Reachable(heap)) :
            /\ IsBlockContainerBox(heap.boxes[b].cls) => ContainerUnmixed(heap, b)
            /\ heap.boxes[b].cls = "InlineBox" => InlineUnbroken(heap, b)

\* a block in an inline in a block in an inline under the block root, all split
C1_Witness ==
    /\ stage = "split" /\ RootIsBlock /\ ~Failed(heap)
    /\ Len(dom) = MaxNestElems
    /\ \A e \in 2..Len(dom) : dom[e].parent = e - 1
    /\ \A e \in 2..Len(dom) : dom[e].display = (IF e % 2 = 0 THEN "inline" ELSE "block")
    /\ heap.nsplit >= 2

(***************************************************************************)
(* C2: two consecutive block-level boxes in an InlineBox (itself in an     *)
(* InlineBox in a LineBox of a BlockBox, after a TextBox) leave the outer  *)
(* block with one anonymous block, the first block, the second block right *)
(* after it, and one anonymous block; in general consecutive block-level   *)
(* boxes of an inline box end up adjacent siblings.                        *)
(***************************************************************************)
\* box b of the tree before block_in_inline is the inner InlineBox of the example
C2_Example(h, b) ==
    LET kids == ChildrenOf(h, b)
        outer == h.boxes[b].parent
        line == h.boxes[outer].parent
    IN /\ h.boxes[b].cls = "InlineBox"
       /\ outer # 0 /\ h.boxes[outer].cls = "InlineBox" /\ ChildrenOf(h, outer) = <<b>>
       /\ line # 0 /\ IsLineBox(h.boxes[line].cls) /\ ChildrenOf(h, line) = <<outer>>
       /\ h.boxes[line].parent = root /\ h.boxes[root].cls = "BlockBox"
       /\ Len(kids) = 3
       /\ h.boxes[kids[1]].cls = "TextBox"
       /\ h.boxes[kids[2]].cls = "BlockBox" /\ h.boxes[kids[3]].cls = "BlockBox"

C2_ConsecutiveBlocksAdjacent ==
    (stage = "split" /\ ~Failed(heap)) =>
        \A b \in Range(Reachable(prev)) :
            /\ C2_Example(prev, b) =>
                LET kids == ChildrenOf(prev, b)
                    out == ChildrenOf(heap, root)
                IN /\ Len(out) = 4
                   /\ heap.boxes[out[1]].cls = "AnonymousBlockBox"
                   /\ out[2] = kids[2] /\ out[3] = kids[3]
                   /\ heap.boxes[out[4]].cls = "AnonymousBlockBox"
            /\ prev.boxes[b].cls = "InlineBox" =>
                LET kids == ChildrenOf(prev, b)
                IN \A i \in 1..(Len(kids) - 1) :
                    (IsBlockLevelBox(prev.boxes[kids[i]].cls)
                        /\ IsBlockLevelBox(prev.boxes[kids[i + 1]].cls)) =>
                        /\ heap.boxes[kids[i]].parent = heap.boxes[kids[i + 1]].parent
                        /\ Index(heap, kids[i + 1]) = Index(heap, kids[i]) + 1

(***************************************************************************)
(* C3: after dom_to_box, after inline_in_block and after block_in_inline   *)
(* on a tree with a block root, every box under the root is met once, its  *)
(* parent is the box that lists it, and only the root has no parent.       *)
(***************************************************************************)
C3_ParentsAgree ==
    (stage \in {"built", "spaced", "wrapped", "split"} /\ RootIsBlock) =>
        ~Failed(heap) /\ ParentsAgree(heap)

\* a tree in which block_in_inline split an inline box
C3_Witness ==
    stage = "split" /\ RootIsBlock /\ ~Failed(heap) /\ heap.nsplit > 0

(***************************************************************************)
(* C4: the box dom_to_box returns for an element holds, in this order, a   *)
(* TextBox for the element's text if it is not empty, then for each child  *)
(* element the box built for it (unless its display is 'none') and a       *)
(* TextBox for its tail if the tail is not empty, also when the child's    *)
(* display is 'none'; there is one box per surviving element.              *)
(***************************************************************************)
ElementParents == [e \in 1..Len(dom) |-> dom[e].parent]

\* the elements that get a box: no 'none' on the way from the root
Surviving == {e \in 1..Len(dom) : \A a \in ElementChain(ElementParents, e) :
                                        dom[a].display # "none"}

\* the boxes made for elements
ElementBoxes(h) == {b \in 1..Len(h.boxes) : h.boxes[b].cls # "TextBox"}

\* what a child box is: a text for an element, or the box of an element
Described(h, kids) ==
    [i \in 1..Len(kids) |->
        IF h.boxes[kids[i]].cls = "TextBox"
        THEN <<"text", h.boxes[kids[i]].element, h.boxes[kids[i]].text>>
        ELSE <<"box", h.boxes[kids[i]].element>>]

TextRun(e, text) == IF text = <<>> THEN <<>> ELSE << <<"text", e, text>> >>

\* the children of the box of element e; hiddenTails says whether the tail
\* of a child with display 'none' becomes a TextBox
ExpectedChildren(e, hiddenTails) ==
    LET kids == ElementChildren(dom, e)
    IN TextRun(e, dom[e].text) \o
       Flatten([i \in 1..Len(kids) |->
            IF dom[kids[i]].display # "none"
            THEN << <<"box", kids[i]>> >> \o TextRun(e, dom[kids[i]].tail)
            ELSE IF hiddenTails THEN TextRun(e, dom[kids[i]].tail) ELSE <<>>])

ClassFor(display) ==
    IF display \in {"block", "list-item"} THEN "BlockBox"
    ELSE IF display = "inline" THEN "InlineBox" ELSE "InlineBlockBox"

BuiltAs(hiddenTails) ==
    /\ ~Failed(heap)
    /\ {heap.boxes[b].element : b \in ElementBoxes(heap)} = Surviving
    /\ Cardinality(ElementBoxes(heap)) = Cardinality(Surviving)
    /\ Range(Reachable(heap)) = 1..Len(heap.boxes)
    /\ \A b \in ElementBoxes(heap) :
        /\ heap.boxes[b].cls = ClassFor(dom[heap.boxes[b].element].display)
        /\ Described(heap, ChildrenOf(heap, b))
                = ExpectedChildren(heap.boxes[b].element, hiddenTails)

C4_ChildrenInDocumentOrder == stage = "built" => BuiltAs(TRUE)

\* the claim as stated: a child with display 'none' contributes nothing
C4_HiddenContributesNothing == stage = "built" => BuiltAs(FALSE)

\* a hidden child with a tail, after a shown child with a tail
C4_Witness ==
    /\ stage = "built" /\ ~Failed(heap)
    /\ \E c \in 2..Len(dom) : dom[c].display = "none" /\ dom[c].tail # <<>>
                                /\ dom[c].parent = 1
    /\ \E c \in 2..Len(dom) : dom[c].display # "none" /\ dom[c].tail # <<>>
    /\ dom[1].text # <<>>

(***************************************************************************)
(* C5: with every text box in mode 'normal', the texts after               *)
(* process_whitespace, joined in document order, hold no two spaces in a   *)
(* row.                                                                    *)
(***************************************************************************)
TextsOf(h) == LET tb == TextBoxesOf(h) IN [i \in 1..Len(tb) |-> h.boxes[tb[i]].text]

NoDoubleSpace(t) == \A i \in 1..(Len(t) - 1) : ~(t[i] = SP /\ t[i + 1] = SP)

C5_NoDoubleSpace ==
    (stage = "spaced" /\ passes = 1
        /\ \A e \in 2..Len(dom) : dom[e].white_space = "normal") =>
        NoDoubleSpace(Flatten(TextsOf(heap)))

(***************************************************************************)
(* C6: process_whitespace is idempotent: a second run on the root leaves   *)
(* every text box, whatever its white-space mode, with the text the first  *)
(* run gave it.                                                            *)
(***************************************************************************)
C6_Idempotent == (stage = "spaced" /\ passes >= 2) => TextsOf(heap) = TextsOf(prev)

(***************************************************************************)
(* C7: in mode 'pre-wrap' process_whitespace removes the tabs, carriage    *)
(* returns and spaces around each newline, replaces every space left by a  *)
(* non-breaking space and inserts one zero-width space right after every   *)
(* maximal run of non-breaking spaces, also after a run that ends the      *)
(* text.                                                                   *)
(***************************************************************************)
IsBlank(c) == c \in {TAB, CR, SP}

\* t without the blanks that only blanks separate from a newline
TrimmedAtNewlines(t) ==
    Flatten([i \in 1..Len(t) |->
        IF IsBlank(t[i])
           /\ \E j \in 1..Len(t) :
                /\ t[j] = NL
                /\ \A k \in (IF i < j THEN i ELSE j + 1)..(IF i < j THEN j - 1 ELSE i) :
                        IsBlank(t[k])
        THEN <<>> ELSE <<t[i]>>])

\* u with a zero-width space after the last non-breaking space of each run;
\* atEnd says whether a run that ends the text gets one
WithBreaks(u, atEnd) ==
    Flatten([i \in 1..Len(u) |->
        IF u[i] = NBSP /\ (IF i = Len(u) THEN atEnd ELSE u[i + 1] # NBSP)
        THEN <<NBSP, ZWSP>> ELSE <<u[i]>>])

SourceText(h, b) == dom[h.boxes[b].element].text

C7_BreakAfterEveryRun ==
    (stage = "spaced" /\ passes = 1) =>
        \A b \in Range(TextBoxesOf(heap)) :
            WhiteSpaceOf(dom, heap, b) = "pre-wrap" =>
                heap.boxes[b].text
                    = WithBreaks(Replace(TrimmedAtNewlines(SourceText(heap, b)), SP, NBSP), TRUE)

\* the claim as stated, for a text without newlines: no zero-width space
\* after a run that ends the text
C7_NoBreakAtEnd ==
    (stage = "spaced" /\ passes = 1) =>
        \A b \in Range(TextBoxesOf(heap)) :
            (WhiteSpaceOf(dom, heap, b) = "pre-wrap" /\ NL \notin Range(SourceText(heap, b))) =>
                heap.boxes[b].text = WithBreaks(Replace(SourceText(heap, b), SP, NBSP), FALSE)

\* a pre-wrap text that ends with a run of two spaces
C7_Witness ==
    /\ stage = "spaced" /\ passes = 1
    /\ \E b \in Range(TextBoxesOf(heap)) :
        /\ WhiteSpaceOf(dom, heap, b) = "pre-wrap"
        /\ SourceText(heap, b) = <<"a", SP, SP>>
        /\ heap.boxes[b].text = <<"a", NBSP, NBSP, ZWSP>>

(***************************************************************************)
(* C8: a block box whose children are all inline-level holds, after        *)
(* inline_in_block, exactly one child, a LineBox (no AnonymousBlockBox     *)
(* around it), whose children are the former children in their order;      *)
(* block_in_inline leaves the two as they are unless it splits a box out   *)
(* of that line box.                                                       *)
(***************************************************************************)
\* box b has children and none of them is block-level
OnlyInlines(h, b) ==
    /\ h.boxes[b].cls = "BlockBox"
    /\ ChildrenOf(h, b) # <<>>
    /\ \A c \in Range(ChildrenOf(h, b)) : ~IsBlockLevelBox(h.boxes[c].cls)

\* block_in_inline has a box to split whose enclosing line box is line
SplitsIn(h, line) ==
    \E x \in Range(Descendants(h, line)) :
        /\ MustSplit(h, x)
        /\ LET anc == Ancestors(h, x)
               n == InlineChain(h, anc)
           IN n > 0 /\ anc[n] = line

C8_OneLineBox ==
    /\ stage = "wrapped" =>
        \A b \in Range(Reachable(prev)) :
            OnlyInlines(prev, b) =>
                LET out == ChildrenOf(heap, b)
                IN /\ Len(out) = 1
                   /\ IsLineBox(heap.boxes[out[1]].cls)
                   /\ heap.boxes[out[1]].element = heap.boxes[b].element
                   /\ ChildrenOf(heap, out[1]) = ChildrenOf(prev, b)
    /\ (stage = "split" /\ ~Failed(heap)) =>
        \A b \in Range(Reachable(prev)) :
            (/\ prev.boxes[b].cls = "BlockBox"
             /\ Len(ChildrenOf(prev, b)) = 1
             /\ IsLineBox(prev.boxes[ChildrenOf(prev, b)[1]].cls)
             /\ ~SplitsIn(prev, ChildrenOf(prev, b)[1])) =>
                /\ ChildrenOf(heap, b) = ChildrenOf(prev, b)
                /\ ChildrenOf(heap, ChildrenOf(prev, b)[1])
                        = ChildrenOf(prev, ChildrenOf(prev, b)[1])

\* the claim as stated: one AnonymousBlockBox holding the one LineBox
C8_AnonymousAroundLine ==
    stage = "wrapped" =>
        \A b \in Range(Reachable(prev)) :
            OnlyInlines(prev, b) =>
                LET out == ChildrenOf(heap, b)
                IN /\ Len(out) = 1
                   /\ heap.boxes[out[1]].cls = "AnonymousBlockBox"
                   /\ Len(ChildrenOf(heap, out[1])) = 1
                   /\ IsLineBox(heap.boxes[ChildrenOf(heap, out[1])[1]].cls)
                   /\ ChildrenOf(heap, ChildrenOf(heap, out[1])[1]) = ChildrenOf(prev, b)

\* <p>Some <em>emphasised</em> text.</p> after inline_in_block
C8_Witness ==
    /\ stage = "wrapped" /\ Len(dom) = 2
    /\ OnlyInlines(prev, root)
    /\ ClassesOf(prev, ChildrenOf(prev, root)) = <<"TextBox", "InlineBox", "TextBox">>
    /\ ClassesOf(prev, ChildrenOf(prev, ChildrenOf(prev, root)[2])) = <<"TextBox">>
    /\ ClassesOf(heap, ChildrenOf(heap, root)) = <<"LineBox">>

(***************************************************************************)
(* C9: on a tree built by dom_to_box and inline_in_block from a root of    *)
(* any display among block, list-item, inline and inline-block, every box  *)
(* block_in_inline acts on has a LineBox as its first ancestor that is not *)
(* an InlineBox: the walk never ends at the root, the assertion holds and  *)
(* the enclosing line box is defined, so no call fails.                    *)
(***************************************************************************)
\* every box to split has a LineBox as its first ancestor that is no InlineBox
LineBoxesFound(h) ==
    \A x \in Range(Reachable(h)) :
        MustSplit(h, x) =>
            LET anc == Ancestors(h, x)
                n == InlineChain(h, anc)
            IN n > 0 /\ IsLineBox(h.boxes[anc[n]].cls)

C9_LineBoxFound ==
    /\ stage = "wrapped" => LineBoxesFound(heap)
    /\ stage = "split" => heap.err = "none"

(***************************************************************************)
(* C10: block_in_inline keeps the document order of the text boxes and of  *)
(* the block boxes made for elements.                                      *)
(***************************************************************************)
C10_DocumentOrderKept ==
    (stage = "split" /\ RootIsBlock /\ ~Failed(heap)) =>
        /\ TextBoxesOf(heap) = TextBoxesOf(prev)
        /\ BlockBoxesOf(heap) = BlockBoxesOf(prev)

====
